---- MODULE Spec2Model ----
(***************************************************************************)
(* Model of the voice-session manager hook useWebRTCConnection             *)
(* (src/unnamed/part_000, lines 286-1656).                                 *)
(*                                                                         *)
(* The hook is single-threaded and event-driven.  Every action below is    *)
(* one run-to-completion piece of the code: a call of an exported          *)
(* function up to its first real suspension point, the continuation of     *)
(* startSession after one awaited I/O step, an event handler of the data   *)
(* channel or the peer connection, or a timer callback.  setState updaters *)
(* are applied in the order they are queued, inside the action that        *)
(* queues them; closures read the state of the latest render.              *)
(*                                                                         *)
(* Functions of the hook are operators from a state record to a state      *)
(* record, so that a function calling another (startSession calling        *)
(* stopSession, sendUserInput calling sendMessage) is operator             *)
(* application.  Cur is the current state as a record, Commit writes a     *)
(* record back to the variables.                                           *)
(***************************************************************************)
EXTENDS Integers, Sequences, FiniteSets, TLC

\* ------------------------------------------------------------------ bounds
MaxSessions == 1      \* startSession invocations that begin an attempt
MaxTranscript == 3    \* items in the transcript list
MaxText == 2          \* fragments in a buffer or in an item's text
MaxTimers == 1        \* pending one-shot timers of one kind (warning clear, delayed AI flush)

\* identities of startSession attempts: MaxSessions in the session
\* specifications, one more where invocations may overlap
Attempts == 1..(MaxSessions + 1)

\* ------------------------------------------------------------ vocabulary
NoRef == 0            \* a null reference (refs.current.x === null)
null == "null"        \* a null message slot (state.error / state.warning)

ConversationStates == {"idle", "user_speaking", "ai_speaking", "processing"}

\* messages set by the lifecycle code
MsgPermissionDenied == "Microphone permission denied"
MsgMicDenied == "Microphone permission denied. Please enable microphone access in settings."
MsgMicNotFound == "No microphone found. Please connect a microphone."
MsgMicFailed == "Failed to access microphone. Please check permissions and try again."
MsgNotConnected == "Data channel not connected"
MsgSendFailed == "Failed to send message"
MsgChannelError == "Data channel error occurred. Connection may be unstable."
MsgGenericError == "An error occurred"
MsgOpenAIDefault == "OpenAI API error"

\* ------------------------------------------------------------- variables
VARIABLES
  isConnected,            \* state.isConnected
  isConnecting,           \* state.isConnecting
  error,                  \* state.error
  warning,                \* state.warning
  conversationState,      \* state.conversationState
  transcript,             \* state.transcript: Seq of [role, text, final]
  peerConnection,         \* refs.current.peerConnection (NoRef or an attempt)
  localStream,            \* refs.current.localStream
  dataChannel,            \* refs.current.dataChannel
  conversationTimeout,    \* refs.current.conversationTimeout: "null", "pending", "fired"
  isResponseInProgress,   \* refs.current.isResponseInProgress
  transcriptFlushTimeout, \* transcriptFlushTimeoutRef.current # null (timer pending)
  pending,                \* pendingTranscriptUpdatesRef.current
  aiFlushTimers,          \* pending setTimeout(flushAITranscriptBuffer, 100)
  warningTimers,          \* pending setTimeout(clear warning, 5000)
  streams,                \* media stream of each attempt: "none", "live", "stopped"
  pcs,                    \* RTCPeerConnection of each attempt: "none", "new", "stable", "closed"
  dcs,                    \* RTCDataChannel.readyState of each attempt, "none" before creation
  sent,                   \* messages transmitted by dataChannel.send in the latest step
  thrown,                 \* whether the latest call let an exception escape to its caller
  startPc,                \* where each startSession invocation is suspended
  nStarts,                \* attempts begun so far
  stoppedDuring,          \* attempts during which the UI called stopSession
  last                    \* the latest step: what ran and how it ended

stateVars == <<isConnected, isConnecting, error, warning, conversationState,
               transcript, peerConnection, localStream, dataChannel,
               conversationTimeout, isResponseInProgress,
               transcriptFlushTimeout, pending, aiFlushTimers, warningTimers,
               streams, pcs, dcs>>

vars == <<stateVars, sent, thrown, startPc, nStarts, stoppedDuring, last>>

Cur ==
  [isConnected |-> isConnected, isConnecting |-> isConnecting,
   error |-> error, warning |-> warning,
   conversationState |-> conversationState, transcript |-> transcript,
   peerConnection |-> peerConnection, localStream |-> localStream,
   dataChannel |-> dataChannel, conversationTimeout |-> conversationTimeout,
   isResponseInProgress |-> isResponseInProgress,
   transcriptFlushTimeout |-> transcriptFlushTimeout, pending |-> pending,
   aiFlushTimers |-> aiFlushTimers, warningTimers |-> warningTimers,
   streams |-> streams, pcs |-> pcs, dcs |-> dcs, sent |-> <<>>,
   thrown |-> FALSE]

\* The growth the bounds allow: list length, text length, pending timers.
WithinBounds(s) ==
  /\ Len(s.transcript) <= MaxTranscript
  /\ \A i \in 1..Len(s.transcript) : Len(s.transcript[i].text) <= MaxText
  /\ Len(s.pending.userDelta) <= MaxText
  /\ Len(s.pending.aiDelta) <= MaxText
  /\ s.aiFlushTimers <= MaxTimers
  /\ s.warningTimers <= MaxTimers

Commit(s) ==
  /\ WithinBounds(s)
  /\ isConnected' = s.isConnected
  /\ isConnecting' = s.isConnecting
  /\ error' = s.error
  /\ warning' = s.warning
  /\ conversationState' = s.conversationState
  /\ transcript' = s.transcript
  /\ peerConnection' = s.peerConnection
  /\ localStream' = s.localStream
  /\ dataChannel' = s.dataChannel
  /\ conversationTimeout' = s.conversationTimeout
  /\ isResponseInProgress' = s.isResponseInProgress
  /\ transcriptFlushTimeout' = s.transcriptFlushTimeout
  /\ pending' = s.pending
  /\ aiFlushTimers' = s.aiFlushTimers
  /\ warningTimers' = s.warningTimers
  /\ streams' = s.streams
  /\ pcs' = s.pcs
  /\ dcs' = s.dcs
  /\ sent' = s.sent
  /\ thrown' = s.thrown

\* What the latest step was: the function or handler that ran (op), the
\* startSession attempt or channel it belongs to (a), how it ended (res),
\* which release call raised in a teardown it ran (raise), and, for a step
\* that ends a startSession invocation, whether the UI called stopSession
\* while that invocation was running (stopped).
Outcome(op, a, res, raise) ==
  [op |-> op, a |-> a, res |-> res, raise |-> raise, stopped |-> FALSE]

EmptyPending == [userDelta |-> <<>>, aiDelta |-> <<>>, items |-> <<>>]

Init ==
  /\ isConnected = FALSE
  /\ isConnecting = FALSE
  /\ error = null
  /\ warning = null
  /\ conversationState = "idle"
  /\ transcript = <<>>
  /\ peerConnection = NoRef
  /\ localStream = NoRef
  /\ dataChannel = NoRef
  /\ conversationTimeout = "null"
  /\ isResponseInProgress = FALSE
  /\ transcriptFlushTimeout = FALSE
  /\ pending = EmptyPending
  /\ aiFlushTimers = 0
  /\ warningTimers = 0
  /\ streams = [a \in Attempts |-> "none"]
  /\ pcs = [a \in Attempts |-> "none"]
  /\ dcs = [a \in Attempts |-> "none"]
  /\ sent = <<>>
  /\ thrown = FALSE
  /\ startPc = [a \in Attempts |-> "none"]
  /\ nStarts = 0
  /\ stoppedDuring = {}
  /\ last = Outcome("init", 0, "", "none")

\* ------------------------------------------------- transport primitives
\* RTCDataChannel.close(): an open or connecting channel starts closing;
\* its onclose event is delivered later.
closeChannel(s, d) ==
  IF s.dcs[d] \in {"connecting", "open"}
  THEN [s EXCEPT !.dcs[d] = "closing"]
  ELSE s

\* RTCPeerConnection.close(): closes the connection and the channel it carries.
closeConnection(s, p) ==
  closeChannel([s EXCEPT !.pcs[p] = "closed"], p)

\* track.stop() on every track of a stream
stopTracks(s, l) == [s EXCEPT !.streams[l] = "stopped"]

channelOpen(s) ==
  /\ s.dataChannel # NoRef
  /\ s.dcs[s.dataChannel] = "open"

\* ---------------------------------------------------------- stopSession
\* The release calls that can raise inside stopSession, given what the
\* manager references: "none" is a run in which nothing raises.
RaiseOptions(s) ==
  {"none"}
    \cup (IF s.dataChannel # NoRef THEN {"dc"} ELSE {})
    \cup (IF s.peerConnection # NoRef THEN {"pc"} ELSE {})
    \cup (IF s.localStream # NoRef THEN {"track"} ELSE {})

\* Variant of caught: the catch block rethrows
caughtRethrows(s) == [s EXCEPT !.thrown = TRUE]

\* catch (error) { logger.error(...) }: the exception stops here
caught(s) == s

\* Variant of stopSession: the final setState leaves conversationState alone
\* and the fallback timer is not cleared
stopSessionKeepsTurn(s, raise) ==
  LET s1 == [s EXCEPT !.isResponseInProgress = FALSE]
      s2 == IF s1.dataChannel # NoRef
            THEN [closeChannel(s1, s1.dataChannel) EXCEPT !.dataChannel = NoRef]
            ELSE s1
      s3 == IF s2.peerConnection # NoRef
            THEN [closeConnection(s2, s2.peerConnection) EXCEPT !.peerConnection = NoRef]
            ELSE s2
      s4 == IF s3.localStream # NoRef
            THEN [stopTracks(s3, s3.localStream) EXCEPT !.localStream = NoRef]
            ELSE s3
  IN  CASE raise = "dc" -> caught(s1)
        [] raise = "pc" -> caught(s2)
        [] raise = "track" -> caught(s3)
        [] OTHER -> [s4 EXCEPT !.isConnected = FALSE,
                               !.isConnecting = FALSE,
                               !.error = null]

\* stopSession: one try block; a raise skips everything after it.
stopSession(s, raise) ==
  LET s1 == [s EXCEPT !.isResponseInProgress = FALSE,
                      !.conversationTimeout = "null"]
      s2 == IF s1.dataChannel # NoRef
            THEN [closeChannel(s1, s1.dataChannel) EXCEPT !.dataChannel = NoRef]
            ELSE s1
      s3 == IF s2.peerConnection # NoRef
            THEN [closeConnection(s2, s2.peerConnection) EXCEPT !.peerConnection = NoRef]
            ELSE s2
      s4 == IF s3.localStream # NoRef
            THEN [stopTracks(s3, s3.localStream) EXCEPT !.localStream = NoRef]
            ELSE s3
  IN  CASE raise = "dc" -> caught(s1)
        [] raise = "pc" -> caught(s2)
        [] raise = "track" -> caught(s3)
        [] OTHER -> [s4 EXCEPT !.isConnected = FALSE,
                               !.isConnecting = FALSE,
                               !.error = null,
                               !.conversationState = "idle"]

\* stopSession called from the UI, under the name of the exported function
\* that was called (stopSession itself, or toggleSession).
StopAs(op, raise) ==
  /\ raise \in RaiseOptions(Cur)
  /\ Commit(stopSession(Cur, raise))
  /\ last' = Outcome(op, 0, IF last.op = op THEN "repeated" ELSE "stopped", raise)
  /\ stoppedDuring' = stoppedDuring \cup {a \in Attempts : startPc[a] \notin {"none", "done"}}
  /\ UNCHANGED <<startPc, nStarts>>

Stop(raise) == StopAs("stopSession", raise)

\* --------------------------------------------------------- startSession
\* catch block of startSession: record the message, then tear down.
startFailed(s, message, raise) ==
  stopSession([s EXCEPT !.isConnecting = FALSE, !.error = message], raise)

\* startSession up to its first suspension (await requestPermissions()).
\* The guard reads isConnecting / isConnected of the render that created
\* the callback, i.e. the values before the stale-transport teardown.
\* cap bounds the attempts begun.
StartAs(op, cap, raise) ==
  LET s0 == Cur
      stale == s0.peerConnection # NoRef
      s1 == IF stale THEN stopSession(s0, raise) ELSE s0
      a == nStarts + 1
  IN  /\ raise \in (IF stale THEN RaiseOptions(s0) ELSE {"none"})
      /\ IF s0.isConnecting \/ s0.isConnected
         THEN /\ Commit(s1)
              /\ last' = Outcome(op, 0, "ignored", raise)
              /\ UNCHANGED <<startPc, nStarts, stoppedDuring>>
         ELSE /\ nStarts < cap
              /\ Commit([s1 EXCEPT !.isConnecting = TRUE, !.error = null])
              /\ startPc' = [startPc EXCEPT ![a] = "permission"]
              /\ nStarts' = a
              /\ last' = Outcome(op, a, "suspended", raise)
              /\ UNCHANGED stoppedDuring

Start(cap, raise) == StartAs("startSession", cap, raise)

\* Variant of Toggle: the test of isConnected is inverted
toggleInverted(cap, raise) ==
  IF isConnected
  THEN StartAs("toggleSession", cap, raise)
  ELSE StopAs("toggleSession", raise)

\* toggleSession: stopSession if the rendered state is connected, else startSession
Toggle(cap, raise) ==
  IF isConnected
  THEN StopAs("toggleSession", raise)
  ELSE StartAs("toggleSession", cap, raise)

\* A continuation of startSession(a) that throws into the catch block.
StepFails(a, s, op, message, raise) ==
  /\ raise \in RaiseOptions(s)
  /\ Commit(startFailed(s, message, raise))
  /\ startPc' = [startPc EXCEPT ![a] = "done"]
  /\ last' = [Outcome(op, a, "failed", raise) EXCEPT !.stopped = a \in stoppedDuring]
  /\ stoppedDuring' = stoppedDuring \ {a}
  /\ UNCHANGED nStarts

\* A continuation of startSession(a) that reaches the next await.
StepSuspends(a, s, op, next) ==
  /\ Commit(s)
  /\ startPc' = [startPc EXCEPT ![a] = next]
  /\ last' = Outcome(op, a, "suspended", "none")
  /\ UNCHANGED <<nStarts, stoppedDuring>>

\* await requestPermissions() settles: denied throws, granted calls getUserMedia.
AfterRequestPermissions(a, granted, raise) ==
  /\ startPc[a] = "permission"
  /\ IF granted
     THEN /\ raise = "none"
          /\ StepSuspends(a, Cur, "requestPermissions", "media")
     ELSE StepFails(a, Cur, "requestPermissions", MsgPermissionDenied, raise)

\* Outcomes of `await getUserMedia()` and of the synchronous code that
\* follows it up to `await peerConnection.createOffer()`.
MediaErrors == {"NotAllowedError", "NotFoundError", "NotReadableError"}
TransportErrors == {"Failed to create peer connection", "addTrack failed"}
MediaOutcomes == {"ok"} \cup MediaErrors \cup TransportErrors

\* catch block of getUserMedia: sets the slots itself, then rethrows.
getUserMediaFailed(s, errorMessage) ==
  LET fatal == errorMessage \in {"NotAllowedError", "NotFoundError"}
      userMessage == CASE errorMessage = "NotAllowedError" -> MsgMicDenied
                       [] errorMessage = "NotFoundError" -> MsgMicNotFound
                       [] OTHER -> MsgMicFailed
  IN  [s EXCEPT !.error = IF fatal THEN userMessage ELSE null,
                !.warning = IF fatal THEN null ELSE userMessage]

\* createPeerConnection(): new RTCPeerConnection, then createDataChannel,
\* which stores the channel in refs.current.dataChannel.
createPeerConnection(s, a) ==
  [s EXCEPT !.pcs[a] = "new", !.dcs[a] = "connecting", !.dataChannel = a]

AfterGetUserMedia(a, outcome, raise) ==
  /\ startPc[a] = "media"
  /\ LET got == [Cur EXCEPT !.streams[a] = "live", !.localStream = a]
         made == [createPeerConnection(got, a) EXCEPT !.peerConnection = a]
     IN  CASE outcome = "ok" ->
                /\ raise = "none"
                /\ StepSuspends(a, made, "getUserMedia", "offer")
           [] outcome \in MediaErrors ->
                StepFails(a, getUserMediaFailed(Cur, outcome), "getUserMedia",
                          outcome, raise)
           [] outcome = "Failed to create peer connection" ->
                StepFails(a, got, "createPeerConnection", outcome, raise)
           [] outcome = "addTrack failed" ->
                StepFails(a, made, "addTrack", outcome, raise)

\* A closed RTCPeerConnection rejects createOffer, setLocalDescription and
\* setRemoteDescription (InvalidStateError); otherwise either outcome.
AfterCreateOffer(a, ok, raise) ==
  /\ startPc[a] = "offer"
  /\ IF ok
     THEN /\ pcs[a] # "closed"
          /\ raise = "none"
          /\ StepSuspends(a, Cur, "createOffer", "local")
     ELSE StepFails(a, Cur, "createOffer", "createOffer failed", raise)

AfterSetLocalDescription(a, ok, raise) ==
  /\ startPc[a] = "local"
  /\ IF ok
     THEN /\ pcs[a] # "closed"
          /\ raise = "none"
          /\ StepSuspends(a, Cur, "setLocalDescription", "signaling")
     ELSE StepFails(a, Cur, "setLocalDescription", "setLocalDescription failed", raise)

\* Variant of AfterExchangeSDP: the session is marked connected as soon as
\* the answer has arrived
AfterExchangeSDPConnects(a, ok, raise) ==
  /\ startPc[a] = "signaling"
  /\ IF ok
     THEN /\ raise = "none"
          /\ Commit([Cur EXCEPT !.isConnecting = FALSE, !.isConnected = TRUE])
          /\ startPc' = [startPc EXCEPT ![a] = "done"]
          /\ last' = [Outcome("exchangeSDPWithOpenAI", a, "connected", "none")
                         EXCEPT !.stopped = a \in stoppedDuring]
          /\ stoppedDuring' = stoppedDuring \ {a}
          /\ UNCHANGED nStarts
     ELSE StepFails(a, Cur, "exchangeSDPWithOpenAI", "OpenAI API error: 401", raise)

\* exchangeSDPWithOpenAI: non-ok response or network error rethrown
AfterExchangeSDP(a, ok, raise) ==
  /\ startPc[a] = "signaling"
  /\ IF ok
     THEN /\ raise = "none"
          /\ StepSuspends(a, Cur, "exchangeSDPWithOpenAI", "remote")
     ELSE StepFails(a, Cur, "exchangeSDPWithOpenAI", "OpenAI API error: 401", raise)

\* setRemoteDescription settles; on success the session is marked connected.
AfterSetRemoteDescription(a, ok, raise) ==
  /\ startPc[a] = "remote"
  /\ IF ok
     THEN /\ pcs[a] # "closed"
          /\ raise = "none"
          /\ Commit([Cur EXCEPT !.pcs[a] = "stable",
                                !.isConnecting = FALSE,
                                !.isConnected = TRUE])
          /\ startPc' = [startPc EXCEPT ![a] = "done"]
          /\ last' = [Outcome("setRemoteDescription", a, "connected", "none")
                         EXCEPT !.stopped = a \in stoppedDuring]
          /\ stoppedDuring' = stoppedDuring \ {a}
          /\ UNCHANGED nStarts
     ELSE StepFails(a, Cur, "setRemoteDescription", "setRemoteDescription failed", raise)


\* ---------------------------------------------------------- handleError
\* fatal: error slot and idle; warning: warning slot and a 5 s clear timer;
\* severity "error" is only logged.
handleError(s, message, severity) ==
  CASE severity = "fatal" ->
         [s EXCEPT !.error = message, !.conversationState = "idle"]
    [] severity = "warning" ->
         [s EXCEPT !.warning = message, !.warningTimers = @ + 1]
    [] OTHER -> s

\* ---------------------------------------------------------- sendMessage
Message(type, text) == [type |-> type, text |-> text]
ResponseCancel == Message("response.cancel", "")
SessionUpdate == Message("session.update", "")
ItemCreate(input) == Message("conversation.item.create", input)

\* Variant of sendMessage: sends on any channel it holds, open or not
sendMessageAnyState(s, message, sendOk) ==
  IF s.dataChannel # NoRef
  THEN IF message.type = "conversation.item.create" /\ s.isResponseInProgress
       THEN s
       ELSE IF sendOk
            THEN [s EXCEPT !.sent = Append(@, message)]
            ELSE IF message.type = "response.cancel"
                 THEN s
                 ELSE [s EXCEPT !.error = MsgSendFailed]
  ELSE [s EXCEPT !.error = MsgNotConnected]

\* sendOk: whether dataChannel.send returns (TRUE) or throws (FALSE)
sendMessage(s, message, sendOk) ==
  IF channelOpen(s)
  THEN IF message.type = "conversation.item.create" /\ s.isResponseInProgress
       THEN s
       ELSE IF sendOk
            THEN [s EXCEPT !.sent = Append(@, message)]
            ELSE IF message.type = "response.cancel"
                 THEN s
                 ELSE [s EXCEPT !.error = MsgSendFailed]
  ELSE [s EXCEPT !.error = MsgNotConnected]

startConversation(s, sendOk) ==
  IF ~channelOpen(s)
  THEN s
  ELSE IF s.conversationState # "idle"
       THEN s
       ELSE [sendMessage([s EXCEPT !.isResponseInProgress = FALSE],
                         SessionUpdate, sendOk)
               EXCEPT !.conversationState = "idle"]

stopConversation(s, sendOk) ==
  LET s1 == [s EXCEPT !.isResponseInProgress = FALSE]
      s2 == IF channelOpen(s1) THEN sendMessage(s1, ResponseCancel, sendOk) ELSE s1
  IN  [s2 EXCEPT !.conversationState = "idle"]

\* Variant of sendUserInput: no check that the conversation is active
sendUserInputWhenIdle(s, input, cancelOk, createOk) ==
  IF ~channelOpen(s)
  THEN s
  ELSE sendMessage(sendMessage(s, ResponseCancel, cancelOk),
                   ItemCreate(input), createOk)

sendUserInput(s, input, cancelOk, createOk) ==
  IF ~channelOpen(s)
  THEN s
  ELSE IF s.conversationState = "idle"
       THEN s
       ELSE sendMessage(sendMessage(s, ResponseCancel, cancelOk),
                        ItemCreate(input), createOk)

\* ------------------------------------------------- transcript assembler
Item(role, text, final) == [role |-> role, text |-> text, final |-> final]

\* Array.findLastIndex over items of a role that are not final; 0 for -1
findLastIndex(list, role) ==
  LET hits == {i \in 1..Len(list) : list[i].role = role /\ ~list[i].final}
  IN  IF hits = {} THEN 0 ELSE CHOOSE i \in hits : \A j \in hits : j <= i

hasFinalUserMessage(list) ==
  \E i \in 1..Len(list) : list[i].role = "user" /\ list[i].final

\* Variant of flushTranscriptBuffer: user deltas go to the last user item,
\* final or not
flushIntoFinal(s) ==
  LET p == s.pending
      withItems == s.transcript \o p.items
      users == {i \in 1..Len(withItems) : withItems[i].role = "user"}
      lastUserIndex == IF users = {} THEN 0
                       ELSE CHOOSE i \in users : \A j \in users : j <= i
      newTranscript ==
        IF p.userDelta # <<>>
        THEN IF lastUserIndex # 0
             THEN [withItems EXCEPT ![lastUserIndex].text = @ \o p.userDelta]
             ELSE Append(withItems, Item("user", p.userDelta, FALSE))
        ELSE withItems
  IN  IF p.items = <<>> /\ p.userDelta = <<>> /\ p.aiDelta = <<>>
      THEN s
      ELSE [s EXCEPT !.transcript = newTranscript,
                     !.pending = [userDelta |-> <<>>, aiDelta |-> p.aiDelta,
                                  items |-> <<>>]]

\* Variant of flushTranscriptBuffer: user deltas always start a new item
flushAlwaysAppends(s) ==
  LET p == s.pending
      withItems == s.transcript \o p.items
      newTranscript ==
        IF p.userDelta # <<>>
        THEN Append(withItems, Item("user", p.userDelta, FALSE))
        ELSE withItems
  IN  IF p.items = <<>> /\ p.userDelta = <<>> /\ p.aiDelta = <<>>
      THEN s
      ELSE [s EXCEPT !.transcript = newTranscript,
                     !.pending = [userDelta |-> <<>>, aiDelta |-> p.aiDelta,
                                  items |-> <<>>]]

flushTranscriptBuffer(s) ==
  LET p == s.pending
      withItems == s.transcript \o p.items
      lastUserIndex == findLastIndex(withItems, "user")
      newTranscript ==
        IF p.userDelta # <<>>
        THEN IF lastUserIndex # 0
             THEN [withItems EXCEPT ![lastUserIndex].text = @ \o p.userDelta]
             ELSE Append(withItems, Item("user", p.userDelta, FALSE))
        ELSE withItems
  IN  IF p.items = <<>> /\ p.userDelta = <<>> /\ p.aiDelta = <<>>
      THEN s
      ELSE [s EXCEPT !.transcript = newTranscript,
                     !.pending = [userDelta |-> <<>>, aiDelta |-> p.aiDelta,
                                  items |-> <<>>]]

\* Variant of flushAITranscriptBuffer: no test for a final user message
flushAIUnguarded(s) ==
  LET p == s.pending
      lastAIIndex == findLastIndex(s.transcript, "assistant")
  IN  IF p.aiDelta = <<>>
      THEN s
      ELSE [s EXCEPT
             !.transcript =
                IF lastAIIndex # 0
                THEN [@ EXCEPT ![lastAIIndex].text = @ \o p.aiDelta]
                ELSE Append(@, Item("assistant", p.aiDelta, FALSE)),
             !.pending = EmptyPending]

flushAITranscriptBuffer(s) ==
  LET p == s.pending
      lastAIIndex == findLastIndex(s.transcript, "assistant")
  IN  IF p.aiDelta = <<>>
      THEN s
      ELSE IF ~hasFinalUserMessage(s.transcript)
           THEN s
           ELSE [s EXCEPT
                  !.transcript =
                     IF lastAIIndex # 0
                     THEN [@ EXCEPT ![lastAIIndex].text = @ \o p.aiDelta]
                     ELSE Append(@, Item("assistant", p.aiDelta, FALSE)),
                  !.pending = EmptyPending]

\* useTranscript: the roles updateLastTranscriptItem may rewrite
isValidTranscriptRole(role) == role \in {"user", "assistant"}

\* useTranscript.updateLastTranscriptItem(text, final) applied to a list
updateLastTranscriptItem(list, text, final) ==
  IF Len(list) = 0
  THEN list
  ELSE LET lastItem == list[Len(list)]
       IN  IF ~isValidTranscriptRole(lastItem.role) \/ lastItem.final
           THEN list
           ELSE [list EXCEPT ![Len(list)] = [@ EXCEPT !.text = text, !.final = final]]

\* clearTimeout of a pending debounce timer, then a fresh setTimeout
scheduleTranscriptFlush(s) == [s EXCEPT !.transcriptFlushTimeout = TRUE]

clearTranscript(s) ==
  [s EXCEPT !.pending = EmptyPending,
            !.transcriptFlushTimeout = FALSE,
            !.transcript = <<>>]

\* ------------------------------------------------------ event normalizer
eventTypeMap ==
  ("conversation.item.input_audio_buffer.speech_started" :> "user_speaking_started")
  @@ ("input_audio_buffer.speech_started" :> "user_speaking_started")
  @@ ("conversation.item.input_audio_buffer.speech_stopped" :> "user_speaking_stopped")
  @@ ("input_audio_buffer.speech_stopped" :> "user_speaking_stopped")
  @@ ("conversation.item.output_audio_buffer.speech_started" :> "ai_speaking_started")
  @@ ("conversation.item.output_audio_buffer.audio_added" :> "ai_speaking_started")
  @@ ("output_audio_buffer.started" :> "ai_speaking_started")
  @@ ("conversation.item.output_audio_buffer.speech_stopped" :> "ai_speaking_stopped")
  @@ ("conversation.item.output_audio_buffer.done" :> "ai_speaking_stopped")
  @@ ("output_audio_buffer.stopped" :> "ai_speaking_stopped")
  @@ ("response.audio.done" :> "ai_speaking_stopped")
  @@ ("response.done" :> "ai_speaking_stopped")
  @@ ("response.cancelled" :> "ai_speaking_stopped")
  @@ ("response.content_part.done" :> "ai_speaking_stopped")
  @@ ("response.output_item.done" :> "ai_speaking_stopped")
  @@ ("conversation.item.input_audio_transcription.delta" :> "user_transcription_delta")
  @@ ("input_audio_transcription.delta" :> "user_transcription_delta")
  @@ ("conversation.item.input_audio_transcription.completed" :> "user_transcription_completed")
  @@ ("input_audio_transcription.completed" :> "user_transcription_completed")
  @@ ("response.audio_transcript.delta" :> "ai_transcription_delta")
  @@ ("response.audio_transcript.done" :> "ai_transcription_completed")
  @@ ("error" :> "error")

\* Variant of normalizeEvent: a type that is not in the table is taken for
\* the end of the assistant's speech
normalizeEventGuessing(message) ==
  IF message.type \in DOMAIN eventTypeMap
  THEN [type |-> eventTypeMap[message.type], data |-> message]
  ELSE [type |-> "ai_speaking_stopped", data |-> message]

normalizeEvent(message) ==
  IF message.type \in DOMAIN eventTypeMap
  THEN [type |-> eventTypeMap[message.type], data |-> message]
  ELSE [type |-> "unknown", data |-> message]

\* ----------------------------------------------------- turn-state machine
handleUserSpeakingStarted(s, sendOk) ==
  LET s1 == [s EXCEPT !.conversationState = "user_speaking"]
  IN  IF channelOpen(s1) /\ sendOk
      THEN [s1 EXCEPT !.sent = Append(@, ResponseCancel)]
      ELSE s1

handleUserSpeakingStopped(s) == [s EXCEPT !.conversationState = "processing"]

\* Variant of handleAISpeakingStarted: no test of the in-progress flag
handleAISpeakingStartedUnguarded(s) ==
  [s EXCEPT !.isResponseInProgress = TRUE,
            !.conversationTimeout = "pending",
            !.conversationState = "ai_speaking"]

handleAISpeakingStarted(s) ==
  IF s.isResponseInProgress
  THEN s
  ELSE [s EXCEPT !.isResponseInProgress = TRUE,
                 !.conversationTimeout = "pending",
                 !.conversationState = "ai_speaking"]

\* Variant of handleAISpeakingStopped: the in-progress flag is left as it is
handleAISpeakingStoppedKeepsFlag(s) ==
  [s EXCEPT !.conversationTimeout = "null",
            !.conversationState = "idle"]

handleAISpeakingStopped(s) ==
  [s EXCEPT !.isResponseInProgress = FALSE,
            !.conversationTimeout = "null",
            !.conversationState = "idle"]

\* Variant of conversationTimeoutFired: the callback resets nothing
conversationTimeoutFiredKeepsTurn(s) == [s EXCEPT !.conversationTimeout = "fired"]

\* callback of the 60 s fallback timer; the ref keeps the expired handle
conversationTimeoutFired(s) ==
  [s EXCEPT !.isResponseInProgress = FALSE,
            !.conversationState = "idle",
            !.conversationTimeout = "fired"]

handleUserTranscriptionDelta(s, message) ==
  scheduleTranscriptFlush([s EXCEPT !.pending.userDelta = @ \o message.delta])

handleAITranscriptionDelta(s, message) ==
  scheduleTranscriptFlush([s EXCEPT !.pending.aiDelta = @ \o message.delta])

handleUserTranscriptionCompleted(s, message) ==
  LET s1 == IF s.transcriptFlushTimeout
            THEN flushTranscriptBuffer([s EXCEPT !.transcriptFlushTimeout = FALSE])
            ELSE s
      lastUserIndex == findLastIndex(s1.transcript, "user")
      copy == IF lastUserIndex # 0
              THEN [s1.transcript EXCEPT ![lastUserIndex].text = message.transcript,
                                         ![lastUserIndex].final = TRUE]
              ELSE Append(s1.transcript, Item("user", message.transcript, TRUE))
  IN  [s1 EXCEPT !.transcript = copy, !.aiFlushTimers = @ + 1]

handleAITranscriptionCompleted(s, message) ==
  LET s1 == IF s.transcriptFlushTimeout
            THEN flushTranscriptBuffer([s EXCEPT !.transcriptFlushTimeout = FALSE])
            ELSE s
      lastAssistantIndex == findLastIndex(s1.transcript, "assistant")
  IN  IF ~hasFinalUserMessage(s1.transcript)
      THEN s1
      ELSE [s1 EXCEPT !.transcript =
              IF lastAssistantIndex # 0
              THEN [@ EXCEPT ![lastAssistantIndex].text = message.transcript,
                             ![lastAssistantIndex].final = TRUE]
              ELSE Append(@, Item("assistant", message.transcript, TRUE))]

\* ------------------------------------------------------ error classifier
NoField == "<absent>"   \* a payload field that is missing

BenignCancel == "Cancellation failed: no active response found"
AuthMsg == "Invalid authentication credentials"
QuotaMsg == "You exceeded your current quota"
BillingMsg == "Account billing hard limit reached"
RateMsg == "Rate limit reached"
AuthCapMsg == "Invalid Authentication"

\* The messages as the pieces of text that matter to a substring test; the
\* benign phrase is one piece
Pieces ==
  (BenignCancel :> <<"Cancellation failed: no active response found">>)
  @@ (AuthMsg :> <<"Invalid", "authentication", "credentials">>)
  @@ (QuotaMsg :> <<"You", "exceeded", "your", "current", "quota">>)
  @@ (BillingMsg :> <<"Account", "billing", "hard", "limit", "reached">>)
  @@ (RateMsg :> <<"Rate", "limit", "reached">>)
  @@ (AuthCapMsg :> <<"Invalid", "Authentication">>)
  @@ (MsgOpenAIDefault :> <<"OpenAI", "API", "error">>)

\* String.prototype.includes: a case-sensitive match of the needle
includes(text, needle) ==
  \E i \in 1..Len(Pieces[text]) : Pieces[text][i] = needle

\* a || b for payload strings: missing and empty are falsy
Truthy(x) == x \notin {NoField, ""}

\* the ConnectionError handleOpenAIError passes to handleError
openAIError(errorMessage) ==
  LET isRecoverable == /\ ~includes(errorMessage, "authentication")
                       /\ ~includes(errorMessage, "quota")
                       /\ ~includes(errorMessage, "billing")
  IN  [message |-> errorMessage,
       severity |-> IF isRecoverable THEN "error" ELSE "fatal",
       recoverable |-> isRecoverable]

handleOpenAIError(s, message) ==
  LET s1 == [s EXCEPT !.isResponseInProgress = FALSE,
                      !.conversationTimeout = "null",
                      !.transcriptFlushTimeout = FALSE]
      errorMessage == IF Truthy(message.error) THEN message.error
                      ELSE IF Truthy(message.message) THEN message.message
                      ELSE MsgOpenAIDefault
      e == openAIError(errorMessage)
  IN  IF includes(errorMessage, "Cancellation failed: no active response found")
      THEN s1
      ELSE handleError(s1, e.message, e.severity)

\* Variant of handleNormalizedEvent: every error event goes to the classifier
handleNormalizedEventAllClassified(s, normalizedEvent, sendOk) ==
  LET data == normalizedEvent.data
      type == normalizedEvent.type
  IN  CASE type = "user_speaking_started" -> handleUserSpeakingStarted(s, sendOk)
        [] type = "user_speaking_stopped" -> handleUserSpeakingStopped(s)
        [] type = "ai_speaking_started" -> handleAISpeakingStarted(s)
        [] type = "ai_speaking_stopped" -> handleAISpeakingStopped(s)
        [] type = "user_transcription_delta" -> handleUserTranscriptionDelta(s, data)
        [] type = "user_transcription_completed" -> handleUserTranscriptionCompleted(s, data)
        [] type = "ai_transcription_delta" -> handleAITranscriptionDelta(s, data)
        [] type = "ai_transcription_completed" -> handleAITranscriptionCompleted(s, data)
        [] type = "error" -> handleOpenAIError(s, data)
        [] OTHER -> s

handleNormalizedEvent(s, normalizedEvent, sendOk) ==
  LET data == normalizedEvent.data
      type == normalizedEvent.type
  IN  CASE type = "user_speaking_started" -> handleUserSpeakingStarted(s, sendOk)
        [] type = "user_speaking_stopped" -> handleUserSpeakingStopped(s)
        [] type = "ai_speaking_started" -> handleAISpeakingStarted(s)
        [] type = "ai_speaking_stopped" -> handleAISpeakingStopped(s)
        [] type = "user_transcription_delta" -> handleUserTranscriptionDelta(s, data)
        [] type = "user_transcription_completed" -> handleUserTranscriptionCompleted(s, data)
        [] type = "ai_transcription_delta" -> handleAITranscriptionDelta(s, data)
        [] type = "ai_transcription_completed" -> handleAITranscriptionCompleted(s, data)
        [] type = "error" ->
             IF data.error # NoField
             THEN handleOpenAIError(s, data)
             ELSE [s EXCEPT !.warning = IF Truthy(data.message) THEN data.message
                                        ELSE MsgGenericError]
        [] OTHER -> s

\* ------------------------------------------------- calls made by the UI
Step(op, a, res) == Outcome(op, a, res, "none")

SendMessage(message, sendOk) ==
  /\ Commit(sendMessage(Cur, message, sendOk))
  /\ last' = Step("sendMessage", 0, message.type)
  /\ UNCHANGED <<startPc, nStarts, stoppedDuring>>

SendUserInput(input, cancelOk, createOk) ==
  /\ Commit(sendUserInput(Cur, input, cancelOk, createOk))
  /\ last' = Step("sendUserInput", 0, input)
  /\ UNCHANGED <<startPc, nStarts, stoppedDuring>>

StartConversation(sendOk) ==
  /\ Commit(startConversation(Cur, sendOk))
  /\ last' = Step("startConversation", 0, "")
  /\ UNCHANGED <<startPc, nStarts, stoppedDuring>>

StopConversation(sendOk) ==
  /\ Commit(stopConversation(Cur, sendOk))
  /\ last' = Step("stopConversation", 0, "")
  /\ UNCHANGED <<startPc, nStarts, stoppedDuring>>

ClearTranscript ==
  /\ Commit(clearTranscript(Cur))
  /\ last' = Step("clearTranscript", 0, "")
  /\ UNCHANGED <<startPc, nStarts, stoppedDuring>>

\* -------------------------------------- events of the transport objects
\* dataChannel.onopen: the channel of a negotiated connection opens
DataChannelOpen(a) ==
  /\ dcs[a] = "connecting"
  /\ pcs[a] = "stable"
  /\ Commit([Cur EXCEPT !.dcs[a] = "open"])
  /\ last' = Step("onopen", a, "")
  /\ UNCHANGED <<startPc, nStarts, stoppedDuring>>

\* dataChannel.onclose: after close(), or closed by the remote side
DataChannelClose(a) ==
  /\ dcs[a] \in {"open", "closing"}
  /\ Commit([Cur EXCEPT !.dcs[a] = "closed",
                        !.transcriptFlushTimeout = FALSE,
                        !.isConnected = FALSE])
  /\ last' = Step("onclose", a, "")
  /\ UNCHANGED <<startPc, nStarts, stoppedDuring>>

\* dataChannel.onerror
DataChannelError(a) ==
  /\ dcs[a] \in {"connecting", "open"}
  /\ Commit(handleError(Cur, MsgChannelError, "warning"))
  /\ last' = Step("onerror", a, "")
  /\ UNCHANGED <<startPc, nStarts, stoppedDuring>>

\* peerConnection.onconnectionstatechange; "connected" needs a negotiated
\* connection, a closed connection reports nothing
ConnectionStates == {"connected", "disconnected", "failed"}

ConnectionStateChange(a, connectionState) ==
  /\ pcs[a] \in {"new", "stable"}
  /\ connectionState = "connected" => pcs[a] = "stable"
  /\ LET s1 == [Cur EXCEPT !.isConnected = (connectionState = "connected")]
     IN  Commit(IF connectionState = "failed"
                THEN handleError(s1, "WebRTC connection failed. Please check your internet connection.", "error")
                ELSE s1)
  /\ last' = Step("onconnectionstatechange", a, connectionState)
  /\ UNCHANGED <<startPc, nStarts, stoppedDuring>>

\* dataChannel.onmessage of an open channel
OnMessage(a, message, sendOk) ==
  /\ dcs[a] = "open"
  /\ Commit(handleNormalizedEvent(Cur, normalizeEvent(message), sendOk))
  /\ last' = Step("onmessage", a, normalizeEvent(message).type)
  /\ UNCHANGED <<startPc, nStarts, stoppedDuring>>

\* ------------------------------------------------------ timer callbacks
FallbackTimeout ==
  /\ conversationTimeout = "pending"
  /\ Commit(conversationTimeoutFired(Cur))
  /\ last' = Step("conversationTimeout", 0, "")
  /\ UNCHANGED <<startPc, nStarts, stoppedDuring>>

WarningTimeout ==
  /\ warningTimers > 0
  /\ Commit([Cur EXCEPT !.warning = null, !.warningTimers = @ - 1])
  /\ last' = Step("warningTimeout", 0, "")
  /\ UNCHANGED <<startPc, nStarts, stoppedDuring>>

TranscriptFlushTimeout ==
  /\ transcriptFlushTimeout
  /\ Commit([flushTranscriptBuffer(Cur) EXCEPT !.transcriptFlushTimeout = FALSE])
  /\ last' = Step("transcriptFlushTimeout", 0, "")
  /\ UNCHANGED <<startPc, nStarts, stoppedDuring>>

AIFlushTimeout ==
  /\ aiFlushTimers > 0
  /\ Commit(flushAITranscriptBuffer([Cur EXCEPT !.aiFlushTimers = @ - 1]))
  /\ last' = Step("aiFlushTimeout", 0, "")
  /\ UNCHANGED <<startPc, nStarts, stoppedDuring>>

\* ------------------------------------------------------------- inputs
Raises == {"none", "dc", "pc", "track"}

WireMessage(type, delta, text, err, msg) ==
  [type |-> type, delta |-> delta, transcript |-> text, error |-> err, message |-> msg]

Plain(type) == WireMessage(type, <<>>, <<>>, NoField, NoField)

SpeakingTypes ==
  {t \in DOMAIN eventTypeMap :
     eventTypeMap[t] \in {"user_speaking_started", "user_speaking_stopped",
                          "ai_speaking_started", "ai_speaking_stopped"}}

UnknownTypes == {"response.audio.delta", "session.created"}

ErrorMessages ==
  {WireMessage("error", <<>>, <<>>, AuthMsg, NoField),
   WireMessage("error", <<>>, <<>>, RateMsg, NoField),
   WireMessage("error", <<>>, <<>>, AuthCapMsg, NoField),
   WireMessage("error", <<>>, <<>>, BenignCancel, NoField),
   WireMessage("error", <<>>, <<>>, NoField, RateMsg),
   WireMessage("error", <<>>, <<>>, NoField, BenignCancel)}

TurnMessages == {Plain(t) : t \in SpeakingTypes \cup UnknownTypes} \cup ErrorMessages

UserInputs == {"hello"}
OutboundMessages == {SessionUpdate, ResponseCancel, ItemCreate("hello")}

Fragments == {<<"a">>}
FinalTexts == {<<"F">>}

TranscriptMessages ==
  {WireMessage(t, d, <<>>, NoField, NoField) :
     t \in {"input_audio_transcription.delta", "response.audio_transcript.delta"},
     d \in Fragments}
  \cup
  {WireMessage(t, <<>>, f, NoField, NoField) :
     t \in {"input_audio_transcription.completed", "response.audio_transcript.done"},
     f \in FinalTexts}

\* ------------------------------------------------------ specifications
\* The continuations of a startSession invocation; R: the release calls
\* that may raise during a teardown
StartSteps(R) ==
  \/ \E a \in Attempts, g \in BOOLEAN, r \in R : AfterRequestPermissions(a, g, r)
  \/ \E a \in Attempts, o \in MediaOutcomes, r \in R : AfterGetUserMedia(a, o, r)
  \/ \E a \in Attempts, ok \in BOOLEAN, r \in R : AfterCreateOffer(a, ok, r)
  \/ \E a \in Attempts, ok \in BOOLEAN, r \in R : AfterSetLocalDescription(a, ok, r)
  \/ \E a \in Attempts, ok \in BOOLEAN, r \in R : AfterExchangeSDP(a, ok, r)
  \/ \E a \in Attempts, ok \in BOOLEAN, r \in R : AfterSetRemoteDescription(a, ok, r)

\* The UI calls startSession again only when no earlier invocation is
\* still suspended, unless the rendered state makes the call a no-op.
Sequential ==
  \/ isConnecting
  \/ isConnected
  \/ \A a \in Attempts : startPc[a] \in {"none", "done"}

\* One manager from construction: lifecycle, messaging, turn taking.
\* R: release calls that may raise; S: outcomes of dataChannel.send.
Session(R, S) ==
  \/ \E r \in R : Sequential /\ Start(MaxSessions, r)
  \/ \E r \in R : Stop(r)
  \/ \E r \in R : Sequential /\ Toggle(MaxSessions, r)
  \/ StartSteps(R)
  \/ \E m \in OutboundMessages, ok \in S : SendMessage(m, ok)
  \/ \E i \in UserInputs, ok1 \in S, ok2 \in S : SendUserInput(i, ok1, ok2)
  \/ \E ok \in S : StartConversation(ok)
  \/ \E ok \in S : StopConversation(ok)
  \/ \E a \in Attempts : DataChannelOpen(a)
  \/ \E a \in Attempts : DataChannelClose(a)
  \/ \E a \in Attempts : DataChannelError(a)
  \/ \E a \in Attempts, c \in ConnectionStates : ConnectionStateChange(a, c)
  \/ \E a \in Attempts, m \in TurnMessages, ok \in S : OnMessage(a, m, ok)
  \/ FallbackTimeout
  \/ WarningTimeout

\* Spec: every release call and every send may raise
Next == Session(Raises, BOOLEAN)

Spec == Init /\ [][Next]_vars

\* SpecClean: the same manager when no release call and no send raises
NextClean == Session({"none"}, {TRUE})

SpecClean == Init /\ [][NextClean]_vars

\* SpecFallback: SpecClean in which a pending fallback timer does expire:
\* setTimeout runs its callback once the delay has passed unless the timer
\* is cleared first
SpecFallback == Init /\ [][NextClean]_vars /\ WF_vars(FallbackTimeout)

\* SpecWarning: SpecClean in which a pending warning-clear timer does expire
SpecWarning == Init /\ [][NextClean]_vars /\ WF_vars(WarningTimeout)

\* SpecOverlap: the lifecycle calls alone, the UI calling start(), stop()
\* and toggle() at any moment, also while an earlier start() is suspended
NextOverlap ==
  \/ Start(MaxSessions + 1, "none")
  \/ Stop("none")
  \/ Toggle(MaxSessions + 1, "none")
  \/ StartSteps({"none"})

SpecOverlap == Init /\ [][NextOverlap]_vars

\* SpecTranscript: a manager whose startSession steps all succeed and whose
\* release calls and sends never raise, receiving transcript events
NextTranscript ==
  \/ Sequential /\ Start(MaxSessions, "none")
  \/ \E a \in Attempts : AfterRequestPermissions(a, TRUE, "none")
  \/ \E a \in Attempts : AfterGetUserMedia(a, "ok", "none")
  \/ \E a \in Attempts : AfterCreateOffer(a, TRUE, "none")
  \/ \E a \in Attempts : AfterSetLocalDescription(a, TRUE, "none")
  \/ \E a \in Attempts : AfterExchangeSDP(a, TRUE, "none")
  \/ \E a \in Attempts : AfterSetRemoteDescription(a, TRUE, "none")
  \/ \E a \in Attempts : DataChannelOpen(a)
  \/ \E a \in Attempts : DataChannelClose(a)
  \/ \E a \in Attempts, m \in TranscriptMessages : OnMessage(a, m, TRUE)
  \/ TranscriptFlushTimeout
  \/ AIFlushTimeout
  \/ ClearTranscript
  \/ Stop("none")

SpecTranscript == Init /\ [][NextTranscript]_vars

\* SpecTranscriptErrors: SpecTranscript whose channel also delivers error
\* events
NextTranscriptErrors ==
  \/ NextTranscript
  \/ \E a \in Attempts, m \in ErrorMessages : OnMessage(a, m, TRUE)

SpecTranscriptErrors == Init /\ [][NextTranscriptErrors]_vars

\* ------------------------------------------------------------- claims
\* the latest step ended a startSession invocation
StartOps ==
  {"requestPermissions", "getUserMedia", "createPeerConnection", "addTrack",
   "createOffer", "setLocalDescription", "exchangeSDPWithOpenAI",
   "setRemoteDescription"}
StartFailed == last.op \in StartOps /\ last.res = "failed"
StartEnded == last.op \in StartOps /\ last.res \in {"connected", "failed"}

\* C1: calling start() while the session is connecting or connected is a
\* no-op: transport, data channel and local stream are neither closed nor
\* replaced, and isConnected, isConnecting and ConversationState keep
\* their values.
C1_StartWhileActiveIsNoop ==
  [][(last'.op = "startSession" /\ (isConnecting \/ isConnected))
       => UNCHANGED <<peerConnection, dataChannel, localStream, streams, pcs,
                      dcs, isConnected, isConnecting, conversationState>>]_vars

\* C2: when a step of start() fails, a message describing the failure is in
\* the error slot or the warning slot when start() returns.
C2_FailureIsSurfaced ==
  StartFailed => (error # null \/ warning # null)

\* C3: when a step of start() fails, the invocation runs no later step and,
\* when it returns, isConnecting and isConnected are false, the three
\* references are null and every track this attempt acquired is stopped.
C3_FailureTearsDown ==
  StartFailed =>
    /\ startPc[last.a] = "done"
    /\ ~isConnecting /\ ~isConnected
    /\ peerConnection = NoRef /\ dataChannel = NoRef /\ localStream = NoRef
    /\ streams[last.a] # "live"

\* C4: if stop() is called while start() is executing, then once both have
\* finished ConversationState is idle, ResponseInProgress is false and no
\* media track or transport acquired by that start() is left unreleased.
C4_StopDuringStartReleases ==
  (StartEnded /\ last.stopped) =>
    /\ conversationState = "idle"
    /\ ~isResponseInProgress
    /\ streams[last.a] # "live"
    /\ pcs[last.a] \notin {"new", "stable"}

\* C5: after stop() returns with no internal error, ConversationState is
\* idle, ResponseInProgress is false, the fallback timer is disarmed, the
\* data channel and transport it held are closed, the tracks it held are
\* stopped, the three references are null, isConnected and isConnecting
\* are false.
C5_StopResets ==
  [][(last'.op = "stopSession" /\ last'.raise = "none") =>
       /\ conversationState' = "idle"
       /\ ~isResponseInProgress'
       /\ conversationTimeout' # "pending"
       /\ dataChannel # NoRef => dcs'[dataChannel] \in {"closing", "closed"}
       /\ peerConnection # NoRef => pcs'[peerConnection] = "closed"
       /\ localStream # NoRef => streams'[localStream] = "stopped"
       /\ peerConnection' = NoRef /\ dataChannel' = NoRef /\ localStream' = NoRef
       /\ ~isConnected' /\ ~isConnecting']_vars

\* a clean stop() has just torn down a live assistant turn's session
C5_Witness ==
  /\ last.op = "stopSession" /\ last.raise = "none"
  /\ \E a \in Attempts :
       streams[a] = "stopped" /\ pcs[a] = "closed" /\ dcs[a] = "closing"

\* C6: after stop() returns no timer of the manager is pending (debounce
\* flush, delayed assistant flush, fallback) and the pending transcript
\* buffers are empty.
C6_StopCancelsTimers ==
  last.op = "stopSession" =>
    /\ ~transcriptFlushTimeout
    /\ aiFlushTimers = 0
    /\ conversationTimeout # "pending"
    /\ pending = EmptyPending

\* C7: stop() never lets an exception escape, also when a release call
\* raises, and a stop() right after a clean stop() (or on a manager that
\* never started) changes nothing.
C7_StopIdempotentNeverThrows ==
  [][(last'.op = "stopSession") =>
       /\ ~thrown'
       /\ (last.op = "init" \/ (last.op = "stopSession" /\ last.raise = "none"))
            => UNCHANGED stateVars]_vars

\* stop() called twice in a row on a session that had been live
C7_Witness ==
  /\ last.op = "stopSession" /\ last.res = "repeated" /\ ~thrown
  /\ \E a \in Attempts : streams[a] = "stopped"

\* C8: sendMessage transmits only on an existing, open channel; otherwise
\* nothing is transmitted, the error slot records it, and ConversationState
\* and ResponseInProgress are unchanged.
C8_SendOnlyWhenOpen ==
  [][(last'.op = "sendMessage") =>
       IF channelOpen(Cur)
       THEN \A i \in 1..Len(sent') : sent'[i].type = last'.res
       ELSE /\ sent' = <<>>
            /\ error' = MsgNotConnected
            /\ UNCHANGED <<conversationState, isResponseInProgress>>]_vars

\* sendMessage was called on a channel that exists but is not open
C8_Witness ==
  /\ last.op = "sendMessage"
  /\ dataChannel # NoRef /\ dcs[dataChannel] # "open"
  /\ sent = <<>> /\ error = MsgNotConnected

\* C9: sendUserInput on an open channel with an active conversation
\* transmits response.cancel and then conversation.item.create with the
\* text, also while an assistant response is in progress.
C9_UserInputAlwaysSent ==
  (last.op = "sendUserInput" /\ channelOpen(Cur) /\ conversationState # "idle")
    => sent = <<ResponseCancel, ItemCreate(last.res)>>

\* C10: sendUserInput is a no-op when the conversation is not active or the
\* channel is not open: nothing is transmitted and no state changes.
C10_UserInputNoop ==
  [][(last'.op = "sendUserInput"
        /\ (~channelOpen(Cur) \/ conversationState = "idle"))
       => (sent' = <<>> /\ UNCHANGED stateVars)]_vars

\* sendUserInput was called on an open channel with an idle conversation
C10_Witness ==
  /\ last.op = "sendUserInput"
  /\ channelOpen(Cur) /\ conversationState = "idle"
  /\ sent = <<>>

\* C11: toggle() does exactly what stop() does when isConnected is true, and
\* exactly what start() does otherwise: while connecting start() only runs
\* its teardown of a transport still referenced, and when neither connecting
\* nor connected it begins an attempt.
C11_ToggleIsStopOrStart ==
  [][(last'.op = "toggleSession") =>
       LET torn == IF peerConnection # NoRef
                   THEN stopSession(Cur, last'.raise)
                   ELSE Cur
       IN  IF isConnected
           THEN Cur' = stopSession(Cur, last'.raise)
                /\ UNCHANGED <<startPc, nStarts>>
           ELSE IF isConnecting
           THEN Cur' = torn /\ UNCHANGED <<startPc, nStarts>>
           ELSE /\ Cur' = [torn EXCEPT !.isConnecting = TRUE, !.error = null]
                /\ nStarts' = nStarts + 1
                /\ startPc' = [startPc EXCEPT ![nStarts + 1] = "permission"]]_vars

\* toggle() has just torn down a connected session
C11_Witness ==
  /\ last.op = "toggleSession" /\ last.res = "stopped" /\ last.raise = "none"
  /\ ~isConnected
  /\ \E a \in Attempts : streams[a] = "stopped" /\ pcs[a] = "closed"

\* Messages handled one after the other by the onmessage handler of the open
\* channel, every send succeeding: the states passed through, first to last
RECURSIVE Replay(_, _)
Replay(s, messages) ==
  IF messages = <<>>
  THEN <<s>>
  ELSE <<s>> \o Replay(handleNormalizedEvent(s, normalizeEvent(Head(messages)), TRUE),
                      Tail(messages))

\* the successive values of a sequence, repetitions of a value dropped
RECURSIVE Changes(_)
Changes(seq) ==
  IF Len(seq) <= 1 THEN seq
  ELSE IF seq[1] = seq[2] THEN Changes(Tail(seq))
  ELSE <<seq[1]>> \o Changes(Tail(seq))

\* an idle connected session with an empty transcript and nothing buffered
IdleConnected ==
  /\ isConnected /\ channelOpen(Cur)
  /\ conversationState = "idle" /\ ~isResponseInProgress
  /\ transcript = <<>> /\ pending = EmptyPending

HelloThere == <<"Hello", " ", "there">>

\* one assistant turn: speech events, three deltas, the completed event
Scenario ==
  <<Plain("input_audio_buffer.speech_started"),
    Plain("input_audio_buffer.speech_stopped"),
    Plain("output_audio_buffer.started"),
    WireMessage("response.audio_transcript.delta", <<"Hello">>, <<>>, NoField, NoField),
    WireMessage("response.audio_transcript.delta", <<" ">>, <<>>, NoField, NoField),
    WireMessage("response.audio_transcript.delta", <<"there">>, <<>>, NoField, NoField),
    WireMessage("response.audio_transcript.done", <<>>, HelloThere, NoField, NoField)>>

\* C12: from an idle connected session with an empty transcript, the events
\* user_speaking_started, user_speaking_stopped, ai_speaking_started, three
\* assistant deltas and response.audio_transcript.done with "Hello there"
\* take ConversationState through idle, user_speaking, processing,
\* ai_speaking, idle and leave a final assistant item with text
\* "Hello there" as the last item of the transcript.
C12_Scenario ==
  IdleConnected =>
    LET run == Replay(Cur, Scenario)
        end == run[Len(run)]
    IN  /\ Changes([i \in 1..Len(run) |-> run[i].conversationState])
             = <<"idle", "user_speaking", "processing", "ai_speaking", "idle">>
        /\ end.transcript # <<>>
        /\ end.transcript[Len(end.transcript)] = Item("assistant", HelloThere, TRUE)

\* C13: once ai_speaking_started has armed the fallback timer, unless a stop
\* event, an error event or stop() clears it, the timer fires and its
\* callback sets ConversationState to idle and ResponseInProgress to false.
C13_FallbackFires ==
  (conversationTimeout = "pending")
    ~> \/ /\ last.op = "conversationTimeout"
          /\ conversationState = "idle"
          /\ ~isResponseInProgress
       \/ conversationTimeout = "null"

\* the fallback timer has just fired on a connected session
C13_Witness ==
  /\ last.op = "conversationTimeout"
  /\ conversationTimeout = "fired"
  /\ conversationState = "idle" /\ ~isResponseInProgress
  /\ isConnected

\* C14: an ai_speaking_started event handled while the fallback timer armed
\* by an earlier one is still pending (no stop event, error event, timeout
\* or stop() has come between the two) changes no state: no second
\* transition, no second timer.
C14_DuplicateStartIgnored ==
  [][(last'.op = "onmessage" /\ last'.res = "ai_speaking_started"
        /\ conversationTimeout = "pending")
       => UNCHANGED stateVars]_vars

\* the role a transcription event belongs to
RoleOf ==
  ("user_transcription_delta" :> "user")
  @@ ("user_transcription_completed" :> "user")
  @@ ("ai_transcription_delta" :> "assistant")
  @@ ("ai_transcription_completed" :> "assistant")

\* the latest step handled the completed event of a role
Completed(role) ==
  /\ last.op = "onmessage"
  /\ last.res \in {"user_transcription_completed", "ai_transcription_completed"}
  /\ RoleOf[last.res] = role

\* the transcript holds a final item of the role with one of the texts
HasFinal(list, role, texts) ==
  \E i \in 1..Len(list) :
    list[i].role = role /\ list[i].final /\ list[i].text \in texts

\* C15: after the completed event of a role, whatever deltas of that role
\* and debounce firings came before it, the transcript contains a final item
\* of that role whose text is the completed event's transcript.
C15_CompletedTextWins ==
  \A role \in {"user", "assistant"} :
    Completed(role) => HasFinal(transcript, role, FinalTexts)

\* C16: every assistant item of the transcript comes after a final user
\* item; an assistant delta or completion handled before any user completion
\* creates no assistant item.
C16_AssistantAfterFinalUser ==
  \A i \in 1..Len(transcript) :
    transcript[i].role = "assistant"
      => \E j \in 1..(i - 1) : transcript[j].role = "user" /\ transcript[j].final

\* buffered assistant deltas have been flushed into an item after a user
\* completion
C16_Witness ==
  /\ last.op = "aiFlushTimeout"
  /\ \E i \in 1..Len(transcript) :
       transcript[i].role = "assistant" /\ ~transcript[i].final

\* C17: the text "Cancellation failed: no active response found" never
\* appears in the error slot or the warning slot, whether it arrives in an
\* error event under error.message or under message, or a send of
\* response.cancel fails.
C17_BenignCancelNeverSurfaced ==
  error # BenignCancel /\ warning # BenignCancel

\* the items of a role that are not final
NonFinal(list, role) ==
  {i \in 1..Len(list) : list[i].role = role /\ ~list[i].final}

\* C18: the transcript holds at most one non-final user item and at most
\* one non-final assistant item.
C18_OneNonFinalPerRole ==
  \A role \in {"user", "assistant"} : Cardinality(NonFinal(transcript, role)) <= 1

\* a second debounce flush has extended the one non-final user item while
\* a non-final assistant item is in the list too
C18_Witness ==
  /\ last.op = "transcriptFlushTimeout"
  /\ \E i \in NonFinal(transcript, "user") : Len(transcript[i].text) >= 2
  /\ NonFinal(transcript, "assistant") # {}

\* an item of the role was added to the list or changed, from before to after
Written(before, after, role) ==
  \E i \in 1..Len(after) :
    /\ after[i].role = role
    /\ (i > Len(before) \/ after[i] # before[i])

\* C19: a role's delta buffer becomes empty only in a step that writes a
\* transcript item of that role, or in clearTranscript; no step for one
\* role discards the buffered text of the other.
C19_BufferClearedOnlyByFlush ==
  [][/\ (pending.userDelta # <<>> /\ pending'.userDelta = <<>>)
          => (last'.op = "clearTranscript" \/ Written(transcript, transcript', "user"))
     /\ (pending.aiDelta # <<>> /\ pending'.aiDelta = <<>>)
          => (last'.op = "clearTranscript" \/ Written(transcript, transcript', "assistant"))
    ]_vars

\* every final item of the list before is in the list after, unchanged
FinalKept(before, after) ==
  \A i \in 1..Len(before) :
    before[i].final => (i <= Len(after) /\ after[i] = before[i])

FatalMessages == {AuthMsg, QuotaMsg, BillingMsg, MsgMicDenied, MsgMicNotFound}

\* C21: a fatal error message in the error slot stays there through every
\* step (stop(), a failed start(), inbound events, timers); only a start()
\* that completes successfully ends with a different error slot.
C21_FatalErrorPersists ==
  [][(error \in FatalMessages /\ error' # error)
       => (last'.op = "setRemoteDescription" /\ last'.res = "connected")]_vars

\* C22: a message in the warning slot, whichever path put it there, is
\* eventually cleared with no further call or event, given that pending
\* timers expire.
C22_WarningExpires == (warning # null) ~> (warning = null)

\* the steps that are timer callbacks
TimerOps == {"conversationTimeout", "warningTimeout", "transcriptFlushTimeout",
             "aiFlushTimeout"}

\* C23: a timer callback that runs right after stop(), before any start(),
\* changes neither the transcript, ConversationState, ResponseInProgress
\* nor the error and warning slots.
C23_NoTimerEffectAfterStop ==
  [][(last.op = "stopSession" /\ last'.op \in TimerOps)
       => UNCHANGED <<transcript, conversationState, isResponseInProgress,
                      error, warning>>]_vars

\* response.cancel is among the messages a step transmitted
CancelSent(messages) == \E i \in 1..Len(messages) : messages[i] = ResponseCancel

\* C24: handling user_speaking_started sets ConversationState to
\* user_speaking whatever it was before, and response.cancel is transmitted
\* on the open channel exactly when ResponseInProgress is set at that moment.
C24_BargeInCancelsOnlyInProgress ==
  [][(last'.op = "onmessage" /\ last'.res = "user_speaking_started") =>
       /\ conversationState' = "user_speaking"
       /\ (CancelSent(sent') <=> isResponseInProgress)]_vars

\* the wire types of the table that stand for ai_speaking_stopped
AISpeakingStoppedTypes ==
  {t \in DOMAIN eventTypeMap : eventTypeMap[t] = "ai_speaking_stopped"}

\* the turn is over: flag cleared, fallback timer disarmed, state idle
TurnEnded(s) ==
  /\ ~s.isResponseInProgress
  /\ s.conversationTimeout = "null"
  /\ s.conversationState = "idle"

\* a new assistant turn has begun: flag set, fallback timer armed
TurnBegun(s) ==
  /\ s.isResponseInProgress
  /\ s.conversationTimeout = "pending"
  /\ s.conversationState = "ai_speaking"

\* C25: handling ai_speaking_stopped, under each of its eight wire types and
\* from any state, clears ResponseInProgress, disarms the fallback timer and
\* sets ConversationState to idle; an ai_speaking_started handled next
\* begins a new turn.
C25_StoppedEndsTurn ==
  [][/\ (last'.op = "onmessage" /\ last'.res = "ai_speaking_stopped")
          => TurnEnded(Cur')
     /\ (last.op = "onmessage" /\ last.res = "ai_speaking_stopped"
           /\ last'.op = "onmessage" /\ last'.res = "ai_speaking_started")
          => TurnBegun(Cur')
     /\ Cardinality(AISpeakingStoppedTypes) = 8
     /\ \A t \in AISpeakingStoppedTypes :
          TurnEnded(handleNormalizedEvent(Cur, normalizeEvent(Plain(t)), TRUE))
    ]_vars

\* ai_speaking_stopped has just been handled on a connected session
C25_Witness ==
  /\ last.op = "onmessage" /\ last.res = "ai_speaking_stopped"
  /\ TurnEnded(Cur)
  /\ isConnected /\ channelOpen(Cur)

\* C26: neither an ai_speaking_stopped event nor the fallback timer ever
\* leaves ConversationState at ai_speaking, so after a barge-in they cannot
\* bring the assistant turn back; ConversationState becomes ai_speaking only
\* in a step that handles ai_speaking_started with ResponseInProgress false.
C26_NoResurrection ==
  [][/\ (\/ last'.op = "conversationTimeout"
         \/ (last'.op = "onmessage" /\ last'.res = "ai_speaking_stopped"))
          => conversationState' # "ai_speaking"
     /\ (conversationState # "ai_speaking" /\ conversationState' = "ai_speaking")
          => /\ last'.op = "onmessage"
             /\ last'.res = "ai_speaking_started"
             /\ ~isResponseInProgress
    ]_vars

\* the user has barged in on an assistant turn that is still in progress
C26_Witness ==
  /\ last.op = "onmessage" /\ last.res = "user_speaking_started"
  /\ conversationState = "user_speaking"
  /\ isResponseInProgress
  /\ conversationTimeout = "pending"

\* type NormalizedEventType
NormalizedEventTypes ==
  {"user_speaking_started", "user_speaking_stopped", "ai_speaking_started",
   "ai_speaking_stopped", "user_transcription_delta",
   "user_transcription_completed", "ai_transcription_delta",
   "ai_transcription_completed", "error", "unknown"}

\* the current state with a transcript under assembly: items in the list,
\* deltas buffered, flush timers pending or not
Assembling ==
  {[Cur EXCEPT !.transcript = tr,
               !.pending = [userDelta |-> u, aiDelta |-> d, items |-> <<>>],
               !.transcriptFlushTimeout = f,
               !.aiFlushTimers = n] :
     tr \in {<<>>,
             <<Item("user", <<"F">>, TRUE)>>,
             <<Item("user", <<"F">>, TRUE), Item("assistant", <<"a">>, FALSE)>>},
     u \in {<<>>} \cup Fragments,
     d \in {<<>>} \cup Fragments,
     f \in BOOLEAN,
     n \in 0..MaxTimers}

\* C27: a type of the table is normalized to its one table entry, a type
\* that is not in the table to unknown, and handling an unknown event
\* changes no state (ConversationState, ResponseInProgress, timers, pending
\* buffers, transcript, error and warning slots) and transmits nothing.
C27_UnknownIsInert ==
  [][/\ (last'.op = "onmessage" /\ last'.res = "unknown")
          => /\ UNCHANGED stateVars
             /\ sent' = <<>>
             /\ \A t \in UnknownTypes, s \in Assembling :
                  handleNormalizedEvent(s, normalizeEvent(Plain(t)), TRUE) = s
     /\ \A t \in DOMAIN eventTypeMap :
          /\ normalizeEvent(Plain(t)).type = eventTypeMap[t]
          /\ eventTypeMap[t] \in NormalizedEventTypes \ {"unknown"}
     /\ \A t \in UnknownTypes :
          /\ t \notin DOMAIN eventTypeMap
          /\ normalizeEvent(Plain(t)).type = "unknown"
    ]_vars

\* an unknown event has been handled in the middle of an assistant turn
C27_Witness ==
  /\ last.op = "onmessage" /\ last.res = "unknown"
  /\ conversationState = "ai_speaking"
  /\ isResponseInProgress
  /\ conversationTimeout = "pending"

\* the delta buffer of a role
Buffer(p, role) == IF role = "user" THEN p.userDelta ELSE p.aiDelta

\* C28: right after the completed event of a role is handled, that role's
\* delta buffer is empty, no non-final item of the role remains, and a final
\* item of the role carries the event's transcript.
C28_CompletedFlushesAndFinalises ==
  \A role \in {"user", "assistant"} :
    Completed(role) =>
      /\ Buffer(pending, role) = <<>>
      /\ NonFinal(transcript, role) = {}
      /\ HasFinal(transcript, role, FinalTexts)

\* the latest step handled a delta event of the role
Delta(l, role) ==
  /\ l.op = "onmessage"
  /\ l.res \in {"user_transcription_delta", "ai_transcription_delta"}
  /\ RoleOf[l.res] = role

\* the text is in the list after and was not in the list before: appended
\* to the role's non-final item, or the text of a new non-final item
Flushed(before, after, role, text) ==
  \E i \in 1..Len(after) :
    /\ after[i].role = role /\ ~after[i].final
    /\ IF i <= Len(before)
       THEN after[i].text = before[i].text \o text
       ELSE after[i].text = text

\* C29: a delta event appends its fragment to its role's buffer, leaves the
\* other buffer and the transcript alone and leaves one debounce timer
\* pending; when that timer fires it is no longer pending and the fragments
\* buffered for a role are written to the transcript in one piece and
\* leave the buffer (assistant fragments once a final user item exists,
\* see C16).
C29_DeltasAreDebounced ==
  [][/\ \A role \in {"user", "assistant"} :
          Delta(last', role) =>
            /\ transcript' = transcript
            /\ \E d \in Fragments :
                 Buffer(pending', role) = Buffer(pending, role) \o d
            /\ \A other \in {"user", "assistant"} \ {role} :
                 Buffer(pending', other) = Buffer(pending, other)
            /\ transcriptFlushTimeout'
     /\ (last'.op = "transcriptFlushTimeout") =>
          /\ ~transcriptFlushTimeout'
          /\ \A role \in {"user", "assistant"} :
               (/\ Buffer(pending, role) # <<>>
                /\ (role = "assistant" => hasFinalUserMessage(transcript)))
                 => /\ Buffer(pending', role) = <<>>
                    /\ Flushed(transcript, transcript', role, Buffer(pending, role))
    ]_vars

\* the terms that make a protocol error fatal
FatalTerms == {"authentication", "quota", "billing"}

\* a piece of text in lower case
toLowerCase(piece) ==
  CASE piece = "Authentication" -> "authentication"
    [] piece = "Invalid" -> "invalid"
    [] piece = "You" -> "you"
    [] piece = "Account" -> "account"
    [] piece = "Rate" -> "rate"
    [] OTHER -> piece

\* the message mentions the term, in whatever case it is written
Mentions(text, term) ==
  \E i \in 1..Len(Pieces[text]) : toLowerCase(Pieces[text][i]) = term

\* what the claim expects of the classifier for a message
Classified(text) ==
  LET fatal == \E term \in FatalTerms : Mentions(text, term)
      e == openAIError(text)
  IN  /\ e.severity = (IF fatal THEN "fatal" ELSE "error")
      /\ e.recoverable = ~fatal
      /\ (e.severity = "fatal") <=> ~e.recoverable

\* C30: the message of an error event that carries an error object, other
\* than the benign cancellation phrase, is classified fatal and not
\* recoverable exactly when it mentions authentication, quota or billing,
\* and error and recoverable otherwise.
C30_Classifier ==
  [][\A a \in Attempts, m \in ErrorMessages :
       (OnMessage(a, m, TRUE) /\ Truthy(m.error) /\ m.error # BenignCancel)
         => Classified(m.error)
    ]_vars

\* the step handles an error event whose message the classifier finds fatal
FatalErrorHandled ==
  \E a \in Attempts, m \in ErrorMessages :
    /\ OnMessage(a, m, TRUE)
    /\ Truthy(m.error)
    /\ openAIError(m.error).severity = "fatal"

\* C31: right after a fatal protocol error is handled, ResponseInProgress
\* is false, no fallback, debounce or delayed assistant flush timer is
\* pending, ConversationState is idle and the error slot holds a fatal
\* message.
C31_FatalResetsEverything ==
  [][FatalErrorHandled =>
       /\ ~isResponseInProgress'
       /\ conversationTimeout' # "pending"
       /\ ~transcriptFlushTimeout'
       /\ aiFlushTimers' = 0
       /\ conversationState' = "idle"
       /\ error' \in FatalMessages]_vars

\* the text an error payload carries under message, or the default
GenericText(m) == IF Truthy(m.message) THEN m.message ELSE MsgGenericError

\* C32: an error event with no error object only sets the warning slot, to
\* the payload's message or to the default text: ResponseInProgress, the
\* fallback timer, ConversationState and the error slot keep their values;
\* an error event with an error object has the effect of the classifier.
C32_ErrorRouting ==
  [][\A a \in Attempts, m \in ErrorMessages :
       OnMessage(a, m, TRUE) =>
         IF m.error = NoField
         THEN /\ warning' = GenericText(m)
              /\ UNCHANGED <<isResponseInProgress, conversationTimeout,
                             conversationState, error>>
              /\ handleNormalizedEvent(Cur, normalizeEvent(Plain("error")), TRUE)
                   = [Cur EXCEPT !.warning = MsgGenericError]
         ELSE Cur' = handleOpenAIError(Cur, m)
    ]_vars

\* an error event without error object was handled during an assistant turn
C32_Witness ==
  /\ last.op = "onmessage" /\ last.res = "error"
  /\ warning = RateMsg /\ warningTimers = 0
  /\ conversationState = "ai_speaking"
  /\ isResponseInProgress
  /\ conversationTimeout = "pending"

\* the awaits of startSession in program order, and the call each one waits for
Stages == <<"permission", "media", "offer", "local", "signaling", "remote", "done">>

Rank(pc) == IF pc = "none" THEN 0 ELSE CHOOSE i \in 1..Len(Stages) : Stages[i] = pc

StageOps ==
  ("permission" :> {"requestPermissions"})
  @@ ("media" :> {"getUserMedia", "createPeerConnection", "addTrack"})
  @@ ("offer" :> {"createOffer"})
  @@ ("local" :> {"setLocalDescription"})
  @@ ("signaling" :> {"exchangeSDPWithOpenAI"})
  @@ ("remote" :> {"setRemoteDescription"})

\* C33: an invocation of start() passes its steps in the order permission,
\* media capture with transport, data channel and track attachment, offer,
\* local description, signaling exchange, remote description, one at a
\* time and none twice, leaving the order only by failing; it marks the
\* session connected (isConnecting false, isConnected true) only in the
\* step in which the remote description has been set.
C33_StartOrder ==
  [][/\ \A a \in Attempts :
          startPc'[a] # startPc[a] =>
            /\ last'.a = a
            /\ \/ Rank(startPc'[a]) = Rank(startPc[a]) + 1
               \/ startPc'[a] = "done" /\ last'.res = "failed"
            /\ startPc[a] # "none" => last'.op \in StageOps[startPc[a]]
            /\ (startPc[a] = "media" /\ startPc'[a] = "offer") =>
                 /\ streams'[a] = "live" /\ localStream' = a
                 /\ pcs'[a] = "new" /\ peerConnection' = a
                 /\ dcs'[a] = "connecting" /\ dataChannel' = a
     /\ (last'.op \in StartOps \cup {"startSession"} /\ isConnected' /\ ~isConnected) =>
          /\ last'.op = "setRemoteDescription"
          /\ startPc[last'.a] = "remote"
     /\ (last'.op \in StartOps /\ last'.res = "connected") =>
          /\ startPc[last'.a] = "remote"
          /\ pcs'[last'.a] = "stable"
          /\ isConnected' /\ ~isConnecting'
    ]_vars

\* a start() has gone through all its steps and marked the session connected
C33_Witness ==
  /\ last.op = "setRemoteDescription" /\ last.res = "connected"
  /\ startPc[last.a] = "done"
  /\ isConnected /\ ~isConnecting
  /\ pcs[last.a] = "stable" /\ streams[last.a] = "live"

\* the user has barged in: user_speaking with the assistant's response
\* still in progress
BargedIn == conversationState = "user_speaking" /\ isResponseInProgress

\* C34: after a barge-in, an ai_speaking_stopped event for the cancelled
\* response and the firing of the fallback timer leave ConversationState at
\* user_speaking.
C34_BargeInHolds ==
  [][(/\ BargedIn
      /\ \/ last'.op = "conversationTimeout"
         \/ (last'.op = "onmessage" /\ last'.res = "ai_speaking_stopped"))
       => conversationState' = "user_speaking"]_vars

\* the attempts whose media stream is live, and whose transport is open
LiveStreams == {a \in Attempts : streams[a] = "live"}
LiveTransports == {a \in Attempts : pcs[a] \in {"new", "stable"}}

\* C35: under every interleaving of start(), stop() and toggle(), overlapping
\* invocations included, at most one media stream and at most one transport
\* are live, and a live stream or transport is the one the manager
\* references.
C35_NoLeak ==
  /\ Cardinality(LiveStreams) <= 1
  /\ Cardinality(LiveTransports) <= 1
  /\ \A a \in LiveStreams : localStream = a
  /\ \A a \in LiveTransports : peerConnection = a

\* C36: the fallback timer is pending exactly when ResponseInProgress is
\* true.
C36_TimerIffInProgress ==
  (conversationTimeout = "pending") <=> isResponseInProgress

\* C37: whenever ConversationState is ai_speaking the fallback timer is
\* armed and ResponseInProgress is true, also after a recoverable or benign
\* protocol error handled during the assistant turn.
C37_SpeakingIsGuarded ==
  conversationState = "ai_speaking"
    => conversationTimeout = "pending" /\ isResponseInProgress

\* C38: once the assistant completion of a turn is handled, the assistant
\* delta buffered for that turn is gone, and the delayed assistant flush
\* that runs next writes no assistant item.
C38_StaleDeltaDropped ==
  [][/\ Completed("assistant")' => Buffer(pending', "assistant") = <<>>
     /\ (Completed("assistant") /\ last'.op = "aiFlushTimeout")
          => ~Written(transcript, transcript', "assistant")
    ]_vars

\* C39: stop() releases everything the manager references and resets the
\* state even when one of its release calls raises: the channel is closing
\* or closed, the transport closed, the tracks stopped, the references
\* null, the connection flags false and ConversationState idle.
C39_StopSurvivesRaise ==
  [][(\E r \in Raises : Stop(r)) =>
       /\ dataChannel' = NoRef /\ peerConnection' = NoRef /\ localStream' = NoRef
       /\ dataChannel # NoRef => dcs'[dataChannel] \notin {"connecting", "open"}
       /\ peerConnection # NoRef => pcs'[peerConnection] = "closed"
       /\ localStream # NoRef => streams'[localStream] = "stopped"
       /\ ~isConnected' /\ ~isConnecting'
       /\ conversationState' = "idle"
       /\ ~isResponseInProgress'
    ]_vars

\* the error frames whose error object carries the benign cancellation
\* phrase: the ones handleOpenAIError receives
BenignMessages == {m \in ErrorMessages : m.error = BenignCancel}

\* C40: handling an error event whose message is the benign cancellation
\* phrase changes nothing: ResponseInProgress, the fallback timer, the
\* debounce flush timer, the pending buffers, ConversationState, the
\* transcript and the error and warning slots stay as they were.
C40_BenignErrorIsInert ==
  [][(\E a \in Attempts, m \in BenignMessages : OnMessage(a, m, TRUE)) =>
       UNCHANGED <<isResponseInProgress, conversationTimeout,
                   transcriptFlushTimeout, pending, conversationState,
                   transcript, error, warning>>
    ]_vars
====
